---- MODULE Spec2Model ----
(***************************************************************************)
(* A model of markdown_image_downloader.py: the per-document pipeline of   *)
(* MarkdownImageDownloader (extract_image_urls, generate_filename,         *)
(* download_image with its retries, the thread pool of                     *)
(* process_markdown_file, and the rewrite loop).                           *)
(*                                                                         *)
(* Text is modelled at the level of lexemes.  A Python string is a         *)
(* sequence of lexemes; a lexeme is a record [k, a, v]:                    *)
(*   k = "lb"   the two characters  ![                                     *)
(*   k = "mid"  the two characters  ](                                     *)
(*   k = "rp"   the character       )                                      *)
(*   k = "lt"   the characters      <img                                   *)
(*   k = "gt"   the character       >                                      *)
(*   k = "txt"  a run of characters none of which is ] ) > or a quote      *)
(*   k = "url"  a URL or path; a = <<scheme, basename, extension>> for a   *)
(*              URL of the document, a = <<"images/", ...>> for a local    *)
(*              relative path                                              *)
(*   k = "attr" one  name=value  of a tag; a = <<name, quote>> with quote  *)
(*              "dq", "sq" or "nq" (unquoted), v = the value (a string)    *)
(* The regular expressions of the source are evaluated on lexemes, by      *)
(* what each character class admits.                                       *)
(***************************************************************************)
EXTENDS Naturals, Sequences, FiniteSets

\* ------------------------------------------------------------------ bounds
\* the largest number of reference-carrying pieces of a document
MaxPieces == 2
\* the number of times the pipeline is run on the document
MaxRuns == 2
\* max_workers of the downloader is 1 (no two downloads at once) or this
MaxWorkers == 2

\* the largest number of quality levels at which an encoding of a payload is
\* within the budget of compress_image
MaxFits == 2

\* the largest number of Markdown files run finds
MaxFiles == 3
\* the largest number of references found in one of those files
MaxFound == 1

\* --------------------------------------------------------------- constants
\* max_retries (the constructor's default, and what main passes)
MaxRetries == 3

\* ----------------------------------------------------------------- lexemes
Lex(k, a, v) == [k |-> k, a |-> a, v |-> v]
LB == Lex("lb", <<>>, <<>>)
MID == Lex("mid", <<>>, <<>>)
RP == Lex("rp", <<>>, <<>>)
LT == Lex("lt", <<>>, <<>>)
GT == Lex("gt", <<>>, <<>>)
Txt(s) == Lex("txt", <<s>>, <<>>)
Url(scheme, base, ext) == Lex("url", <<scheme, base, ext>>, <<>>)
Attr(name, quote, val) == Lex("attr", <<name, quote>>, val)

\* as StartsWithHttp, without the test of the scheme
StartsWithAnything(url) == Len(url) > 0

\* url.startswith(('http://', 'https://'))
StartsWithHttp(url) ==
    /\ Len(url) > 0
    /\ url[1].k = "url"
    /\ url[1].a[1] \in {"http://", "https://"}

\* str.lower() on the attribute names, extensions and content-type words the
\* model uses
Lower(s) ==
    CASE s = "SRC" -> "src"
      [] s = ".PNG" -> ".png"
      [] s = "SVG" -> "svg"
      [] OTHER -> s

\* the index of the first lexeme of kind k in t at or after i, 0 if none
RECURSIVE FirstOfKind(_, _, _)
FirstOfKind(t, k, i) ==
    IF i > Len(t) THEN 0
    ELSE IF t[i].k = k THEN i
    ELSE FirstOfKind(t, k, i + 1)

\* as StrReplace, replacing the first occurrence only (count=1)
ReplaceFirstOnly(t, old, new) ==
    LET hits == {i \in 1..(Len(t) + 1 - Len(old)) :
                    SubSeq(t, i, i + Len(old) - 1) = old}
    IN  IF hits = {} THEN t
        ELSE LET i == CHOOSE h \in hits : \A g \in hits : h <= g
             IN  SubSeq(t, 1, i - 1) \o new \o SubSeq(t, i + Len(old), Len(t))

\* str.replace(old, new): every non-overlapping occurrence, left to right
RECURSIVE StrReplace(_, _, _)
StrReplace(t, old, new) ==
    IF Len(old) = 0 \/ Len(t) < Len(old) THEN t
    ELSE IF SubSeq(t, 1, Len(old)) = old
         THEN new \o StrReplace(SubSeq(t, Len(old) + 1, Len(t)), old, new)
         ELSE <<t[1]>> \o StrReplace(Tail(t), old, new)

\* ---------------------------------------------------------- extract_image_urls
\* re.findall(r'!\[([^\]]*)\]\(([^\)]+)\)', content) from lexeme i on: the
\* alt group runs to the first ], which must open "](" ; the url group is the
\* non-empty run up to the first ) ; the scan resumes after a match.
RECURSIVE FindBracket(_, _)
FindBracket(t, i) ==
    LET j == FirstOfKind(t, "lb", i)
    IN  IF j = 0 THEN <<>>
        ELSE LET m == FirstOfKind(t, "mid", j + 1)
                 r == IF m = 0 THEN 0 ELSE FirstOfKind(t, "rp", m + 1)
             IN  IF m # 0 /\ r > m + 1
                 THEN <<[alt |-> SubSeq(t, j + 1, m - 1),
                         url |-> SubSeq(t, m + 1, r - 1)]>>
                      \o FindBracket(t, r + 1)
                 ELSE FindBracket(t, j + 1)

\* f'![{alt}]({url})'
BracketText(alt, url) == <<LB>> \o alt \o <<MID>> \o url \o <<RP>>

\* a lexeme that  src=["\']([^"\'>]+)["\']  matches: a quoted, non-empty value
\* of an attribute whose name ends in the characters src
IsSrcAttr(x) ==
    /\ x.k = "attr"
    /\ x.a[1] \in {"src", "data-src"}
    /\ x.a[2] \in {"dq", "sq"}
    /\ Len(x.v) > 0

\* re.findall(r'<img[^>]+src=["\']([^"\'>]+)["\'][^>]*>', content) from lexeme
\* i on: a tag ends at the first > ; the greedy [^>]+ makes the captured value
\* that of the last src attribute of the tag.
RECURSIVE FindTags(_, _)
FindTags(t, i) ==
    LET j == FirstOfKind(t, "lt", i)
        g == IF j = 0 THEN 0 ELSE FirstOfKind(t, "gt", j + 1)
    IN  IF g = 0 THEN <<>>
        ELSE LET cand == {p \in (j + 1)..(g - 1) : IsSrcAttr(t[p])}
             IN  IF cand = {} THEN FindTags(t, j + 1)
                 ELSE LET p == CHOOSE q \in cand : \A c \in cand : c <= q
                      IN  <<t[p].v>> \o FindTags(t, g + 1)

\* re.search('<img[^>]+src=["\']' + re.escape(url) + '["\'][^>]*>', content):
\* the first tag of the content that carries a src attribute of that value
RECURSIVE SearchImgTag(_, _, _)
SearchImgTag(t, url, i) ==
    LET j == FirstOfKind(t, "lt", i)
        g == IF j = 0 THEN 0 ELSE FirstOfKind(t, "gt", j + 1)
    IN  IF g = 0 THEN <<>>
        ELSE IF \E p \in (j + 1)..(g - 1) : IsSrcAttr(t[p]) /\ t[p].v = url
             THEN SubSeq(t, j, g)
             ELSE SearchImgTag(t, url, j + 1)

\* the references of the ![alt](url) matches whose url is absolute HTTP(S)
RECURSIVE BracketReferences(_)
BracketReferences(ms) ==
    IF ms = <<>> THEN <<>>
    ELSE (IF StartsWithHttp(Head(ms).url)
          THEN <<[url |-> Head(ms).url,
                  original_text |-> BracketText(Head(ms).alt, Head(ms).url)]>>
          ELSE <<>>)
         \o BracketReferences(Tail(ms))

\* the references of the captured src values that are absolute HTTP(S), each
\* with the text of the tag the search finds for it
RECURSIVE TagReferences(_, _)
TagReferences(us, content) ==
    IF us = <<>> THEN <<>>
    ELSE (IF StartsWithHttp(Head(us)) /\ SearchImgTag(content, Head(us), 1) # <<>>
          THEN <<[url |-> Head(us),
                  original_text |-> SearchImgTag(content, Head(us), 1)]>>
          ELSE <<>>)
         \o TagReferences(Tail(us), content)

ExtractImageUrls(content) ==
    BracketReferences(FindBracket(content, 1))
    \o TagReferences(FindTags(content, 1), content)

\* ----------------------------------------------------------- generate_filename
RecognizedExt == {".jpg", ".jpeg", ".png", ".gif", ".bmp", ".webp", ".svg"}

\* sanitize_filename(name)[:20] on the base names the model uses (each is
\* shorter than 20 characters): an illegal character becomes _
SanitizeFilename(name) == IF name = "a:b" THEN "a_b" ELSE name

\* hashlib.md5(url.encode()).hexdigest()[:12], kept symbolic: the digest of a
\* url is represented by the url's own characters, so that equal urls have
\* equal digests and different urls different ones
RECURSIVE UrlHash(_)
UrlHash(url) ==
    IF url = <<>> THEN <<>>
    ELSE <<Head(url).k>> \o Head(url).a \o UrlHash(Tail(url))

\* the content_type argument left at its default
None == <<"None">>

\* a Content-Type header is kept as the sequence of its words: image/png is
\* <<"image", "png">>, the empty string is <<>>
\* word in content_type
InContentType(word, content_type) ==
    \E i \in 1..Len(content_type) : content_type[i] = word

\* content_type.lower()
LowerContentType(content_type) ==
    [i \in 1..Len(content_type) |-> Lower(content_type[i])]

\* get_image_extension(url, content_type): the url's own extension when
\* recognized; else by the words of a content type that is given and not
\* empty; else '.jpg'
GetImageExtension(url, content_type) ==
    IF Len(url) = 1 /\ url[1].k = "url" /\ Lower(url[1].a[3]) \in RecognizedExt
    THEN Lower(url[1].a[3])
    ELSE IF content_type # None /\ content_type # <<>>
    THEN CASE InContentType("jpeg", content_type)
                \/ InContentType("jpg", content_type) -> ".jpg"
           [] InContentType("png", content_type) -> ".png"
           [] InContentType("gif", content_type) -> ".gif"
           [] InContentType("webp", content_type) -> ".webp"
           [] InContentType("svg", content_type) -> ".svg"
           [] OTHER -> ".jpg"
    ELSE ".jpg"

\* generate_filename(url, content_type): the file name as a sequence of its
\* parts
GenerateFilename(url, content_type) ==
    IF /\ Len(url) = 1
       /\ url[1].k = "url"
       /\ url[1].a[3] # ""
       /\ Lower(url[1].a[3]) \in RecognizedExt
    THEN <<SanitizeFilename(url[1].a[2]), "_">> \o UrlHash(url)
         \o <<Lower(url[1].a[3])>>
    ELSE <<"image", "_">> \o UrlHash(url)
         \o <<GetImageExtension(url, content_type)>>

\* f"images/{local_path.name}"
RelativePath(filename) == <<Lex("url", <<"images/">> \o filename, <<>>)>>

\* ------------------------------------------------- the rewrite loop (287-310)
\* the (\w+) group of  (\w+)=["\']([^"\'>]+)["\']  on an attribute name: the
\* word characters that precede the = sign
WordSuffix(name) == IF name = "data-src" THEN "src" ELSE name

\* re.findall(r'(\w+)=["\']([^"\'>]+)["\']', original_text): the quoted,
\* non-empty attributes of the tag, in order
RECURSIVE ImgAttrs(_)
ImgAttrs(tag) ==
    IF tag = <<>> THEN <<>>
    ELSE (IF /\ Head(tag).k = "attr"
             /\ Head(tag).a[2] \in {"dq", "sq"}
             /\ Len(Head(tag).v) > 0
          THEN <<[name |-> WordSuffix(Head(tag).a[1]), value |-> Head(tag).v]>>
          ELSE <<>>)
         \o ImgAttrs(Tail(tag))

\* dict[key] = value on an insertion-ordered dict kept as a sequence of
\* [name, value]: a known key keeps its place and takes the new value
DictSet(d, name, value) ==
    IF \E i \in 1..Len(d) : d[i].name = name
    THEN [i \in 1..Len(d) |->
            IF d[i].name = name THEN [name |-> name, value |-> value] ELSE d[i]]
    ELSE Append(d, [name |-> name, value |-> value])

\* dict(img_attrs)
RECURSIVE DictOf(_, _)
DictOf(pairs, d) ==
    IF pairs = <<>> THEN d
    ELSE DictOf(Tail(pairs), DictSet(d, Head(pairs).name, Head(pairs).value))

\* the attributes appended after src: those whose name is not src
RECURSIVE OtherAttrs(_)
OtherAttrs(d) ==
    IF d = <<>> THEN <<>>
    ELSE (IF Lower(Head(d).name) # "src"
          THEN <<Attr(Head(d).name, "dq", Head(d).value)>>
          ELSE <<>>)
         \o OtherAttrs(Tail(d))

\* f'<img {" ".join(new_attrs)}>'
NewImgTag(original_text, local_path) ==
    <<LT, Attr("src", "dq", local_path)>>
    \o OtherAttrs(DictOf(ImgAttrs(original_text), <<>>))
    \o <<GT>>

\* re.match(r'!\[([^\]]*)\]\([^\)]+\)', original_text): the alt group, or no
\* match
AltMatch(original_text) ==
    LET m == FirstOfKind(original_text, "mid", 2)
        r == IF m = 0 THEN 0 ELSE FirstOfKind(original_text, "rp", m + 1)
    IN  IF original_text[1] = LB /\ m # 0 /\ r > m + 1
        THEN [matched |-> TRUE, alt |-> SubSeq(original_text, 2, m - 1)]
        ELSE [matched |-> FALSE, alt |-> <<>>]

\* one iteration of  for original_text, local_path in url_replacements.items()
ApplyReplacement(updated_content, original_text, local_path) ==
    IF original_text[1] = LB
    THEN IF AltMatch(original_text).matched
         THEN StrReplace(updated_content, original_text,
                         BracketText(AltMatch(original_text).alt, local_path))
         ELSE updated_content
    ELSE StrReplace(updated_content, original_text,
                    NewImgTag(original_text, local_path))

\* ------------------------------------------------------------- the documents
UA == <<Url("http://", "a", ".png")>>
UB == <<Url("https://", "b", "")>>
URel == <<Url("", "c", ".png")>>

ImgTag(attrs) == <<LT>> \o attrs \o <<GT>>

\* the pieces a document of several references is made of
CorePieces ==
    << BracketText(<<Txt("x")>>, UA),
       BracketText(<<Txt("y")>>, UB),
       ImgTag(<<Attr("src", "dq", UA), Attr("alt", "dq", <<Txt("cat")>>)>>) >>

\* documents of one piece: the shapes of tags and links
SinglePieces ==
    { <<Txt("plain")>>,
      ImgTag(<<Attr("src", "dq", UA), Attr("alt", "dq", <<Txt("cat")>>)>>)
      \o <<Txt(" ")>>
      \o ImgTag(<<Attr("src", "dq", UA), Attr("title", "sq", <<Txt("t")>>)>>),
      <<LB>> \o ImgTag(<<Attr("src", "dq", UB)>>) \o <<MID>> \o UA \o <<RP>>,
      BracketText(<<Txt("x")>>, URel),
      BracketText(<<>>, <<Url("http://", "a:b", ".PNG")>>),
      BracketText(<<Txt("s")>>, <<Url("https://", "s", ".svg")>>),
      ImgTag(<<Attr("src", "dq", URel), Attr("alt", "dq", <<Txt("cat")>>)>>),
      ImgTag(<<Attr("alt", "dq", <<>>), Attr("src", "sq", UA),
               Attr("width", "nq", <<Txt("100")>>)>>),
      ImgTag(<<Attr("src", "dq", UA), Attr("alt", "dq", <<Txt("cat")>>),
               Attr("alt", "dq", <<Txt("dog")>>),
               Attr("title", "dq", <<Txt("t")>>)>>),
      ImgTag(<<Attr("src", "dq", URel), Attr("data-src", "dq", UB),
               Attr("title", "dq", <<Txt("t")>>)>>),
      ImgTag(<<Attr("SRC", "dq", UB), Attr("src", "dq", UA)>>) }

RECURSIVE Concat(_)
Concat(ps) ==
    IF ps = <<>> THEN <<>> ELSE Head(ps) \o <<Txt(".")>> \o Concat(Tail(ps))

\* the choices of n core pieces, each piece not before an earlier one of the
\* list (a document and the one with two pieces swapped behave alike)
Choices(n) ==
    {c \in [1..n -> 1..Len(CorePieces)] :
        \A i \in 1..(n - 1) : c[i] <= c[i + 1]}

Docs ==
    {Concat(<<p>>) : p \in SinglePieces}
    \cup UNION {{Concat([i \in 1..n |-> CorePieces[c[i]]]) : c \in Choices(n)} :
                  n \in 1..MaxPieces}

\* ------------------------------------------------------------------ the state
VARIABLES
    max_workers,       \* self.max_workers, set by the constructor
    content,           \* the text of the Markdown file on disk
    fs,                \* the files of the images folder: file name -> state
    images_folder,     \* whether the images folder exists
    pc,                \* where process_markdown_file is
    run,               \* the number of the current run of the pipeline
    image_urls,        \* extract_image_urls(content)
    futs,              \* the futures submitted to the pool, in order
    url_replacements,  \* the insertion-ordered dict original_text -> path
    updated_content,   \* the text being rewritten
    k,                 \* the next item of url_replacements.items()
    prev,              \* what the previous run left: the text, the files,
                       \* and whether each of its downloads returned True
    call,              \* the frame of a call of compress_image
    batch              \* the frame of a call of run

vars == <<max_workers, content, fs, images_folder, pc, run, image_urls, futs,
          url_replacements, updated_content, k, prev, call, batch>>

\* save_path.exists(), and what the file holds
FileState(path) == IF path \in DOMAIN fs THEN fs[path] ELSE "absent"
PutFile(path, st) == [q \in DOMAIN fs \cup {path} |-> IF q = path THEN st ELSE fs[q]]

\* no call of compress_image, and no call of run, is being followed
NoCall == [pc |-> "none"]
NoBatch == [pc |-> "none"]

RECURSIVE Pow2(_)
Pow2(n) == IF n = 0 THEN 1 ELSE 2 * Pow2(n - 1)

Init ==
    /\ max_workers \in {1, MaxWorkers}
    /\ content \in Docs
    /\ fs = <<>>
    /\ images_folder = FALSE
    /\ pc = "start"
    /\ run = 1
    /\ image_urls = <<>>
    /\ futs = <<>>
    /\ url_replacements = <<>>
    /\ updated_content = <<>>
    /\ k = 1
    /\ prev = [content |-> <<>>, fs |-> <<>>, all_ok |-> TRUE]
    /\ call = NoCall
    /\ batch = NoBatch

\* --------------------------------------------------- process_markdown_file
\* lines 239-253: read the file, extract the references; without any, return;
\* else create the images folder
ReadAndExtract ==
    /\ pc = "start"
    /\ image_urls' = ExtractImageUrls(content)
    /\ IF ExtractImageUrls(content) = <<>>
       THEN /\ pc' = "done"
            /\ UNCHANGED images_folder
       ELSE /\ pc' = "submit"
            /\ images_folder' = TRUE
    /\ futs' = <<>>
    /\ url_replacements' = <<>>
    /\ UNCHANGED <<max_workers, content, fs, run, updated_content, k, prev, call, batch>>

\* the future of executor.submit(self.download_image, url, local_path), with
\* future_to_url[future] = (url, original_text, local_path).  st is where the
\* call is: "queued", "check" (at save_path.exists()), "get" (in the 0.5 s
\* sleep and the request), "open" (the payload is there), "write" (the file
\* is open), "backoff" (in time.sleep(2 ** retries), delay seconds long),
\* "done".  retries is the argument of the running call; content_type is the
\* header of the response and compressed whether the payload went through
\* compress_image, kept while the call has the payload and has not yet opened
\* the file (nothing reads them after that); a call that has returned leaves
\* only its result.
NewFuture(ref) ==
    [url |-> ref.url,
     original_text |-> ref.original_text,
     local_path |-> GenerateFilename(ref.url, None),
     st |-> "queued",
     retries |-> 0,
     delay |-> 0,
     content_type |-> None,
     compressed |-> FALSE,
     result |-> FALSE,
     collected |-> FALSE]

\* lines 262-269: one iteration of the submit loop
Submit ==
    /\ pc = "submit"
    /\ Len(futs) < Len(image_urls)
    /\ futs' = Append(futs, NewFuture(image_urls[Len(futs) + 1]))
    /\ pc' = IF Len(futs) + 1 = Len(image_urls) THEN "collect" ELSE "submit"
    /\ UNCHANGED <<max_workers, content, fs, images_folder, run, image_urls,
                   url_replacements, updated_content, k, prev, call, batch>>

\* as Running, for a pool that gives up the thread of a call that sleeps
\* before its next try
RunningUnlessAsleep(f) == futs[f].st \notin {"queued", "done", "backoff"}

\* the call of future f holds a thread of the pool: it has been taken from
\* the queue and has not returned
Running(f) == futs[f].st \notin {"queued", "done"}

\* ThreadPoolExecutor(max_workers): a queued call is taken, in submission
\* order, by one of at most max_workers threads
StartWorker(f) ==
    /\ futs[f].st = "queued"
    /\ \A g \in 1..(f - 1) : futs[g].st # "queued"
    /\ Cardinality({g \in 1..Len(futs) : Running(g)}) < max_workers
    /\ futs' = [futs EXCEPT ![f].st = "check"]
    /\ UNCHANGED <<max_workers, content, fs, images_folder, pc, run, image_urls,
                   url_replacements, updated_content, k, prev, call, batch>>

\* ------------------------------------------------------------ download_image
\* time.sleep(2 ** retries)
Backoff(retries) == Pow2(retries)

\* as Failed, with retries <= self.max_retries
FailedOnceMore(fut) ==
    IF fut.retries <= MaxRetries
    THEN [fut EXCEPT !.st = "backoff", !.delay = Backoff(fut.retries),
                     !.content_type = None, !.compressed = FALSE]
    ELSE [fut EXCEPT !.st = "done", !.result = FALSE, !.retries = 0,
                     !.content_type = None, !.compressed = FALSE]

\* lines 203-212: the except branch of a try that failed
Failed(fut) ==
    IF fut.retries < MaxRetries
    THEN [fut EXCEPT !.st = "backoff", !.delay = Backoff(fut.retries),
                     !.content_type = None, !.compressed = FALSE]
    ELSE [fut EXCEPT !.st = "done", !.result = FALSE, !.retries = 0,
                     !.content_type = None, !.compressed = FALSE]

\* as Retry, for a recursive call that passes retries on as it is
RetrySameCount(f) ==
    /\ futs[f].st = "backoff"
    /\ futs' = [futs EXCEPT ![f].st = "check", ![f].delay = 0]
    /\ UNCHANGED <<max_workers, content, fs, images_folder, pc, run, image_urls,
                   url_replacements, updated_content, k, prev, call, batch>>

\* line 210: the sleep is over, download_image(url, save_path, retries + 1)
Retry(f) ==
    /\ futs[f].st = "backoff"
    /\ futs' = [futs EXCEPT ![f].st = "check", ![f].delay = 0,
                            ![f].retries = @ + 1]
    /\ UNCHANGED <<max_workers, content, fs, images_folder, pc, run, image_urls,
                   url_replacements, updated_content, k, prev, call, batch>>

\* as SavePathExists, for a check that never finds the file
SavePathNeverExists(path) == FALSE

\* save_path.exists()
SavePathExists(path) == FileState(path) # "absent"

\* lines 169-176: the existing file is kept and the call returns True; else
\* the call sleeps 0.5 s and goes on to the request
CheckExists(f) ==
    /\ futs[f].st = "check"
    /\ futs' = [futs EXCEPT ![f] =
                  IF SavePathExists(futs[f].local_path)
                  THEN [@ EXCEPT !.st = "done", !.result = TRUE,
                                 !.retries = 0]
                  ELSE [@ EXCEPT !.st = "get"]]
    /\ UNCHANGED <<max_workers, content, fs, images_folder, pc, run, image_urls,
                   url_replacements, updated_content, k, prev, call, batch>>

\* the Content-Type headers of the responses: image/png, image/SVG+xml, and
\* none (headers.get gives '')
ContentTypes == {<<"image", "png">>, <<"image", "SVG", "xml">>, <<>>}

\* line 190: 'svg' in content_type.lower()
SkipsCompression(url, content_type) ==
    InContentType("svg", LowerContentType(content_type))

\* lines 178-191: the request answers 2xx with at least 100 bytes; the payload
\* goes through compress_image unless the content type has svg in it
GetOk(f) ==
    /\ futs[f].st = "get"
    /\ \E content_type \in ContentTypes :
          futs' = [futs EXCEPT
                     ![f].st = "open",
                     ![f].content_type = content_type,
                     ![f].compressed =
                        ~SkipsCompression(futs[f].url, content_type)]
    /\ UNCHANGED <<max_workers, content, fs, images_folder, pc, run, image_urls,
                   url_replacements, updated_content, k, prev, call, batch>>

\* line 178: session.get raises (timeout, connection reset, DNS)
GetNetworkError(f) ==
    /\ futs[f].st = "get"
    /\ futs' = [futs EXCEPT ![f] = Failed(@)]
    /\ UNCHANGED <<max_workers, content, fs, images_folder, pc, run, image_urls,
                   url_replacements, updated_content, k, prev, call, batch>>

\* line 179: raise_for_status raises on a status that is not 2xx
GetBadStatus(f) ==
    /\ futs[f].st = "get"
    /\ futs' = [futs EXCEPT ![f] = Failed(@)]
    /\ UNCHANGED <<max_workers, content, fs, images_folder, pc, run, image_urls,
                   url_replacements, updated_content, k, prev, call, batch>>

\* lines 185-186: fewer than 100 bytes raise ValueError
GetTooSmall(f) ==
    /\ futs[f].st = "get"
    /\ futs' = [futs EXCEPT ![f] = Failed(@)]
    /\ UNCHANGED <<max_workers, content, fs, images_folder, pc, run, image_urls,
                   url_replacements, updated_content, k, prev, call, batch>>

\* lines 194-197: mkdir, then open(save_path, 'wb') creates the file or
\* truncates the one that is there
OpenFile(f) ==
    /\ futs[f].st = "open"
    /\ fs' = PutFile(futs[f].local_path, "partial")
    /\ futs' = [futs EXCEPT ![f].st = "write", ![f].content_type = None,
                            ![f].compressed = FALSE]
    /\ UNCHANGED <<max_workers, content, images_folder, pc, run, image_urls,
                   url_replacements, updated_content, k, prev, call, batch>>

\* lines 194-197: mkdir or open raises, the file is not touched
OpenFails(f) ==
    /\ futs[f].st = "open"
    /\ futs' = [futs EXCEPT ![f] = Failed(@)]
    /\ UNCHANGED <<max_workers, content, fs, images_folder, pc, run, image_urls,
                   url_replacements, updated_content, k, prev, call, batch>>

\* lines 198-201: the payload is written and the call returns True
WriteFile(f) ==
    /\ futs[f].st = "write"
    /\ fs' = PutFile(futs[f].local_path, "full")
    /\ futs' = [futs EXCEPT ![f].st = "done", ![f].result = TRUE,
                            ![f].retries = 0]
    /\ UNCHANGED <<max_workers, content, images_folder, pc, run, image_urls,
                   url_replacements, updated_content, k, prev, call, batch>>

\* line 198: f.write raises, the file stays as open left it
WriteFails(f) ==
    /\ futs[f].st = "write"
    /\ futs' = [futs EXCEPT ![f] = Failed(@)]
    /\ UNCHANGED <<max_workers, content, fs, images_folder, pc, run, image_urls,
                   url_replacements, updated_content, k, prev, call, batch>>

\* ------------------------------------------- collecting, rewriting, returning
\* as Recorded, without the test of success
RecordedAlways(fut, d) ==
    DictSet(d, fut.original_text, RelativePath(fut.local_path))

\* lines 276-282: what one completed future does to url_replacements
Recorded(fut, d) ==
    IF fut.result
    THEN DictSet(d, fut.original_text, RelativePath(fut.local_path))
    ELSE d

\* lines 272-284: as_completed yields a future that is done
Collect(f) ==
    /\ pc = "collect"
    /\ futs[f].st = "done"
    /\ ~futs[f].collected
    /\ futs' = [futs EXCEPT ![f].collected = TRUE]
    /\ url_replacements' = Recorded(futs[f], url_replacements)
    /\ UNCHANGED <<max_workers, content, fs, images_folder, pc, run, image_urls,
                   updated_content, k, prev, call, batch>>

\* as AllCompleted, for a wait that returns with the first completed future
FirstCompleted == \E f \in 1..Len(futs) : futs[f].collected

\* as_completed is exhausted, and the with block has waited for the pool
AllCompleted == \A f \in 1..Len(futs) : futs[f].collected

\* as Join, without the test of url_replacements
JoinAlwaysRewrite ==
    /\ pc = "collect"
    /\ AllCompleted
    /\ pc' = "rewrite"
    /\ updated_content' = content
    /\ k' = 1
    /\ UNCHANGED <<max_workers, content, fs, images_folder, run, image_urls,
                   futs, url_replacements, prev, call, batch>>

\* lines 285-288: leave the with block; rewrite if there is a replacement
Join ==
    /\ pc = "collect"
    /\ AllCompleted
    /\ IF url_replacements # <<>>
       THEN /\ pc' = "rewrite"
            /\ updated_content' = content
            /\ k' = 1
       ELSE /\ pc' = "done"
            /\ UNCHANGED <<updated_content, k>>
    /\ UNCHANGED <<max_workers, content, fs, images_folder, run, image_urls,
                   futs, url_replacements, prev, call, batch>>

\* lines 289-310: one iteration of the loop over url_replacements.items()
ApplyNext ==
    /\ pc = "rewrite"
    /\ k <= Len(url_replacements)
    /\ updated_content' = ApplyReplacement(updated_content,
                                           url_replacements[k].name,
                                           url_replacements[k].value)
    /\ k' = k + 1
    /\ UNCHANGED <<max_workers, content, fs, images_folder, pc, run, image_urls,
                   futs, url_replacements, prev, call, batch>>

\* lines 313-318: write the file and return
Save ==
    /\ pc = "rewrite"
    /\ k > Len(url_replacements)
    /\ content' = updated_content
    /\ pc' = "done"
    /\ UNCHANGED <<max_workers, fs, images_folder, run, image_urls, futs,
                   url_replacements, updated_content, k, prev, call, batch>>

\* the pipeline is run again on the document as the run before left it
Rerun ==
    /\ pc = "done"
    /\ run < MaxRuns
    /\ run' = run + 1
    /\ pc' = "start"
    /\ prev' = [content |-> content, fs |-> fs,
                all_ok |-> \A f \in 1..Len(futs) : futs[f].result]
    /\ image_urls' = <<>>
    /\ futs' = <<>>
    /\ url_replacements' = <<>>
    /\ updated_content' = <<>>
    /\ k' = 1
    /\ UNCHANGED <<max_workers, content, fs, images_folder, call, batch>>

Next ==
    \/ ReadAndExtract
    \/ Submit
    \/ \E f \in 1..Len(futs) : StartWorker(f)
    \/ \E f \in 1..Len(futs) : CheckExists(f)
    \/ \E f \in 1..Len(futs) : GetOk(f)
    \/ \E f \in 1..Len(futs) : GetNetworkError(f)
    \/ \E f \in 1..Len(futs) : GetBadStatus(f)
    \/ \E f \in 1..Len(futs) : GetTooSmall(f)
    \/ \E f \in 1..Len(futs) : OpenFile(f)
    \/ \E f \in 1..Len(futs) : OpenFails(f)
    \/ \E f \in 1..Len(futs) : WriteFile(f)
    \/ \E f \in 1..Len(futs) : WriteFails(f)
    \/ \E f \in 1..Len(futs) : Retry(f)
    \/ \E f \in 1..Len(futs) : Collect(f)
    \/ Join
    \/ ApplyNext
    \/ Save
    \/ Rerun

\* ------------------------------------------------------------ compress_image
\* max_size_kb, the default of compress_image, which download_image uses
MaxSizeKb == 500
\* the quality of the encoding made after the loop (line 159)
FallbackQuality == 20

\* len(data) <= max_size_kb * 1024
WithinBudget(len) == len <= MaxSizeKb * 1024

\* list(range(start, stop, -step)) for a positive step
RECURSIVE RangeDown(_, _, _)
RangeDown(start, stop, step) ==
    IF start <= stop THEN <<>>
    ELSE <<start>> \o RangeDown(start - step, stop, step)

\* as QualityLevels, for a loop that stops one level earlier
QualityLevelsShort == RangeDown(85, 25, 5)

\* range(85, 20, -5)
QualityLevels == RangeDown(85, 20, 5)

\* the qualities an encoder may be asked for
AllQualities == {q \in 1..95 : q % 5 = 0}

\* the payloads given to compress_image: the length of image_data; whether
\* Image.open decodes it; the mode of the image, where img.save(format='JPEG')
\* raises for a mode JPEG cannot hold ("P"); and fits, the qualities at which
\* the encoding is within the budget (at the others it is one byte over)
Payloads ==
    [len : {100, MaxSizeKb * 1024, MaxSizeKb * 1024 + 1},
     decodable : BOOLEAN,
     mode : {"RGB", "RGBA", "P"},
     fits : {w \in SUBSET {q \in AllQualities : 15 <= q /\ q <= 90} :
                Cardinality(w) <= MaxFits}]

\* len(output.getvalue()) after img.save(output, format='JPEG', quality=q)
EncodedLen(data, q) ==
    IF q \in data.fits THEN MaxSizeKb * 1024 ELSE MaxSizeKb * 1024 + 1

\* the bytes compress_image returns: image_data itself, or an encoding
Original(data) == [kind |-> "image_data", quality |-> 0, len |-> data.len]
Encoding(data, q) == [kind |-> "JPEG", quality |-> q, len |-> EncodedLen(data, q)]

InitCompress ==
    /\ call \in [pc : {"size"}, data : Payloads, mode : {"none"}, i : {1},
                 result : {[kind |-> "none", quality |-> 0, len |-> 0]}]
    /\ batch = NoBatch
    /\ max_workers = 1
    /\ content = <<>>
    /\ fs = <<>>
    /\ images_folder = FALSE
    /\ pc = "idle"
    /\ run = 1
    /\ image_urls = <<>>
    /\ futs = <<>>
    /\ url_replacements = <<>>
    /\ updated_content = <<>>
    /\ k = 1
    /\ prev = [content |-> <<>>, fs |-> <<>>, all_ok |-> TRUE]

\* what compress_image leaves alone
CompressFrame ==
    UNCHANGED <<max_workers, content, fs, images_folder, pc, run, image_urls,
                futs, url_replacements, updated_content, k, prev, batch>>

\* lines 134-135: a payload within the budget is returned as it is
CompressSmall ==
    /\ call.pc = "size"
    /\ WithinBudget(call.data.len)
    /\ call' = [call EXCEPT !.pc = "returned", !.result = Original(call.data)]
    /\ CompressFrame

\* lines 138-144: Image.open decodes the payload; an RGBA image is pasted on
\* a white RGB background
CompressOpen ==
    /\ call.pc = "size"
    /\ ~WithinBudget(call.data.len)
    /\ call.data.decodable
    /\ call' = [call EXCEPT !.pc = "loop",
                            !.mode = IF call.data.mode = "RGBA" THEN "RGB"
                                     ELSE call.data.mode]
    /\ CompressFrame

\* lines 138, 161-163: Image.open raises; the original data is returned
CompressOpenFails ==
    /\ call.pc = "size"
    /\ ~WithinBudget(call.data.len)
    /\ ~call.data.decodable
    /\ call' = [call EXCEPT !.pc = "returned", !.result = Original(call.data)]
    /\ CompressFrame

\* lines 147-154: one iteration of the loop over the quality levels
CompressTry ==
    /\ call.pc = "loop"
    /\ call.mode = "RGB"
    /\ call.i <= Len(QualityLevels)
    /\ call' = IF WithinBudget(EncodedLen(call.data, QualityLevels[call.i]))
               THEN [call EXCEPT !.pc = "returned",
                        !.result = Encoding(call.data, QualityLevels[call.i])]
               ELSE [call EXCEPT !.i = @ + 1]
    /\ CompressFrame

\* lines 157-159: no level was within the budget
CompressFallback ==
    /\ call.pc = "loop"
    /\ call.mode = "RGB"
    /\ call.i > Len(QualityLevels)
    /\ call' = [call EXCEPT !.pc = "returned",
                            !.result = Encoding(call.data, FallbackQuality)]
    /\ CompressFrame

\* lines 149, 159, 161-163: img.save raises; the original data is returned
CompressSaveFails ==
    /\ call.pc = "loop"
    /\ call.mode # "RGB"
    /\ call' = [call EXCEPT !.pc = "returned", !.result = Original(call.data)]
    /\ CompressFrame

NextCompress ==
    \/ CompressSmall
    \/ CompressOpen
    \/ CompressOpenFails
    \/ CompressTry
    \/ CompressFallback
    \/ CompressSaveFails

SpecCompress == InitCompress /\ [][NextCompress]_vars

\* ------------------------------------------------------------------------ run
\* the Markdown files run may find: whether the file can be read; found, the
\* number of references extract_image_urls yields; ok, how many of their
\* downloads return True (each under its own original_text); whether the file
\* can be written
MdFiles ==
    {d \in [readable : BOOLEAN, found : 0..MaxFound, ok : 0..MaxFound,
            writable : BOOLEAN] : d.ok <= d.found}

\* the sequences of at most n of them
RECURSIVE FileLists(_)
FileLists(n) ==
    IF n = 0 THEN {<<>>}
    ELSE FileLists(n - 1)
         \cup {Append(l, d) : l \in {m \in FileLists(n - 1) : Len(m) = n - 1},
                              d \in MdFiles}

\* process_markdown_file(md_file) as run sees it: the number of entries of the
\* dict it returns, and the failure it caught and logged on the way (lines
\* 320-322 turn every exception into the return of {})
ProcessMarkdownFile(d) ==
    IF ~d.readable THEN [replacements |-> 0, failure |-> "read"]
    ELSE IF d.found = 0 \/ d.ok = 0 THEN [replacements |-> 0, failure |-> "none"]
    ELSE IF ~d.writable THEN [replacements |-> 0, failure |-> "write"]
    ELSE [replacements |-> d.ok, failure |-> "none"]

InitRun ==
    /\ batch \in [pc : {"find"}, md_files : FileLists(MaxFiles), i : {1},
                  log : {<<>>}, processed_files : {0}, total_images : {0}]
    /\ call = NoCall
    /\ max_workers = 1
    /\ content = <<>>
    /\ fs = <<>>
    /\ images_folder = FALSE
    /\ pc = "idle"
    /\ run = 1
    /\ image_urls = <<>>
    /\ futs = <<>>
    /\ url_replacements = <<>>
    /\ updated_content = <<>>
    /\ k = 1
    /\ prev = [content |-> <<>>, fs |-> <<>>, all_ok |-> TRUE]

\* what run itself leaves alone
RunFrame ==
    UNCHANGED <<max_workers, content, fs, images_folder, pc, run, image_urls,
                futs, url_replacements, updated_content, k, prev, call>>

\* lines 329-338: find the files; without any, log that and return
FindMarkdownFiles ==
    /\ batch.pc = "find"
    /\ batch' = [batch EXCEPT
                   !.pc = IF batch.md_files = <<>> THEN "returned" ELSE "loop"]
    /\ RunFrame

\* as ProcessNextFile, for a loop that a failed document ends
ProcessNextFileOrStop ==
    /\ batch.pc = "loop"
    /\ batch.i <= Len(batch.md_files)
    /\ LET r == ProcessMarkdownFile(batch.md_files[batch.i])
       IN  batch' = IF r.failure = "none"
                    THEN [batch EXCEPT
                            !.i = @ + 1,
                            !.log = Append(@, r),
                            !.processed_files = @ + 1,
                            !.total_images = @ + r.replacements]
                    ELSE [batch EXCEPT !.pc = "reported", !.log = Append(@, r)]
    /\ RunFrame

\* lines 341-346: one iteration of the loop over md_files (the except branch
\* of lines 347-348 is never entered: process_markdown_file raises nothing)
ProcessNextFile ==
    /\ batch.pc = "loop"
    /\ batch.i <= Len(batch.md_files)
    /\ LET r == ProcessMarkdownFile(batch.md_files[batch.i])
       IN  batch' = [batch EXCEPT
                       !.i = @ + 1,
                       !.log = Append(@, r),
                       !.processed_files = @ + 1,
                       !.total_images = @ + r.replacements]
    /\ RunFrame

\* lines 350-352: the loop is over; log the totals
Report ==
    /\ batch.pc = "loop"
    /\ batch.i > Len(batch.md_files)
    /\ batch' = [batch EXCEPT !.pc = "reported"]
    /\ RunFrame

NextRun ==
    \/ FindMarkdownFiles
    \/ ProcessNextFile
    \/ Report

\* run is one thread: while it has a step to take, it takes one
SpecRun == InitRun /\ [][NextRun]_vars /\ WF_vars(NextRun)

\* ---------------------------------------------------------------- scheduling
\* the largest number of references of a document
MaxFutures ==
    CHOOSE n \in 0..(2 * MaxPieces + 2) :
        /\ \A d \in Docs : Len(ExtractImageUrls(d)) <= n
        /\ \E d \in Docs : Len(ExtractImageUrls(d)) = n

\* a step of the thread that runs process_markdown_file
MainStep ==
    ReadAndExtract \/ Submit \/ Join \/ ApplyNext \/ Save \/ Rerun
    \/ \E f \in 1..Len(futs) : Collect(f)

\* a step of the pool thread that runs the download of future f: every
\* request returns or times out (timeout=30), every sleep ends
WorkerStep(f) ==
    /\ f \in 1..Len(futs)
    /\ \/ StartWorker(f) \/ CheckExists(f) \/ GetOk(f) \/ GetNetworkError(f)
       \/ GetBadStatus(f) \/ GetTooSmall(f) \/ OpenFile(f) \/ OpenFails(f)
       \/ WriteFile(f) \/ WriteFails(f) \/ Retry(f)

\* ============================================================== the claims
Futs == 1..Len(futs)

\* the step of future f is one that leaves futs[f] in place (every step but
\* Rerun, which drops the futures of the run that ended)
Kept(f) == f \in 1..Len(futs')

\* C1: a local image file is never overwritten once present: no download
\* opens (creates or truncates) a destination path that already holds a file,
\* in any interleaving of the workers and across runs.
C1_NeverOverwritten ==
    [][\A f \in Futs :
          (futs[f].st = "open" /\ Kept(f) /\ futs'[f].st = "write")
          => FileState(futs[f].local_path) = "absent"]_vars

\* the waits, in seconds, before the 2nd, 3rd and 4th try
WaitBeforeRetry == <<1, 2, 4>>

\* a step in which a try of future f fails, whatever the failure
TryFails(f) ==
    /\ futs[f].st \in {"get", "open", "write"}
    /\ Kept(f)
    /\ \/ futs'[f].st = "backoff"
       \/ futs'[f].st = "done" /\ ~futs'[f].result

\* C2: the retry policy of download_image: a failed try (network error, bad
\* status, payload under 100 bytes, failure to open or to write) with
\* retries < max_retries waits 2^retries seconds (1, 2, 4) and tries again
\* with retries + 1; tries are numbered 0..max_retries, so there are never
\* more than max_retries + 1 of them, and False is returned only by the
\* failure of try number max_retries.
C2_RetryPolicy ==
    /\ [](\A f \in Futs :
            /\ futs[f].retries <= MaxRetries
            /\ futs[f].st = "backoff" =>
                 /\ futs[f].retries < MaxRetries
                 /\ futs[f].delay = WaitBeforeRetry[futs[f].retries + 1]
            /\ futs[f].st = "queued" => futs[f].retries = 0)
    /\ [][\A f \in Futs :
            /\ TryFails(f) =>
                 IF futs[f].retries < MaxRetries
                 THEN /\ futs'[f].st = "backoff"
                      /\ futs'[f].retries = futs[f].retries
                 ELSE futs'[f].st = "done" /\ ~futs'[f].result
            /\ (futs[f].st = "backoff" /\ Kept(f) /\ futs'[f].st # "backoff")
                 => /\ futs'[f].st = "check"
                    /\ futs'[f].retries = futs[f].retries + 1
            /\ (futs[f].st # "done" /\ Kept(f) /\ futs'[f].st = "done"
                /\ ~futs'[f].result)
                 => futs[f].retries = MaxRetries
            /\ (futs[f].st \notin {"backoff", "done"} /\ Kept(f)
                /\ futs'[f].st # "done")
                 => futs'[f].retries = futs[f].retries]_vars

\* a download has returned False, after the failure of its last try
C2_Witness == \E f \in Futs : futs[f].st = "done" /\ ~futs[f].result

\* C3: each key of url_replacements is the original_text of a reference whose
\* download_image returned True, mapped to that download's relative path; a
\* reference whose download returned False adds no entry.
C3_OnlySuccessesRecorded ==
    \A i \in 1..Len(url_replacements) :
        \E f \in Futs :
            /\ futs[f].collected
            /\ futs[f].result
            /\ futs[f].original_text = url_replacements[i].name
            /\ RelativePath(futs[f].local_path) = url_replacements[i].value

\* both results have been collected, one True and one False, and the dict has
\* the one entry
C3_Witness ==
    /\ Len(url_replacements) = 1
    /\ \E f, g \in Futs :
          /\ futs[f].collected /\ futs[f].result
          /\ futs[g].collected /\ ~futs[g].result
          /\ futs[g].original_text # futs[f].original_text

\* C4: the text is rewritten, and the dict read by the rewrite loop, only
\* after every future submitted for the document is done, retries included.
C4_JoinBarrier ==
    pc \in {"rewrite", "done"} =>
        /\ Len(futs) = Len(image_urls)
        /\ \A f \in Futs : futs[f].st = "done"

\* the rewrite loop runs after two downloads, one of which used up its tries
C4_Witness ==
    /\ pc = "rewrite"
    /\ \E f, g \in Futs : futs[f].result /\ ~futs[g].result

\* C5: fetch work is deduplicated by URL: no two futures of a document are
\* submitted for the same url.
C5_OneFetchPerUrl ==
    \A f, g \in Futs : f # g => futs[f].url # futs[g].url

\* the places where the string s occurs in the string t
Occurrences(t, s) ==
    {i \in 1..(Len(t) + 1 - Len(s)) : SubSeq(t, i, i + Len(s) - 1) = s}

\* the number of local image paths a string holds, in links and in attributes
RECURSIVE LocalPaths(_)
LocalPaths(t) ==
    IF t = <<>> THEN 0
    ELSE (IF Head(t).k = "url" /\ Head(t).a[1] = "images/" THEN 1 ELSE 0)
         + LocalPaths(Head(t).v) + LocalPaths(Tail(t))

\* the urls of the references pairwise differ
DistinctUrls ==
    \A i, j \in 1..Len(image_urls) :
        i # j => image_urls[i].url # image_urls[j].url

\* C6: failure isolation: when a document whose references have pairwise
\* distinct urls has been processed, every reference whose download returned
\* False is still there verbatim, every reference whose download returned True
\* is replaced by its local path (its url is no longer a reference of the
\* document), and there are as many local paths in the document as there were
\* successful downloads.
C6_FailureIsolation ==
    (pc = "done" /\ run = 1 /\ DistinctUrls) =>
        /\ \A f \in Futs :
              IF futs[f].result
              THEN \A i \in 1..Len(ExtractImageUrls(content)) :
                      ExtractImageUrls(content)[i].url # futs[f].url
              ELSE Occurrences(content, futs[f].original_text) # {}
        /\ LocalPaths(content) = Cardinality({f \in Futs : futs[f].result})

\* C7: when the destination path exists as download_image checks it, the call
\* returns True at once: it does not go on to the 0.5 s sleep and the request,
\* and the files are left as they are.
C7_SkipExisting ==
    [][\A f \in Futs :
          (/\ futs[f].st = "check"
           /\ FileState(futs[f].local_path) # "absent"
           /\ Kept(f)
           /\ futs'[f] # futs[f])
          => /\ futs'[f].st = "done"
             /\ futs'[f].result
             /\ futs'[f].delay = 0
             /\ fs' = fs]_vars

\* in a second run a download has returned True for a file the first run left
C7_Witness ==
    /\ run = 2
    /\ fs = prev.fs
    /\ \E f \in Futs :
          /\ futs[f].st = "done"
          /\ futs[f].result
          /\ FileState(futs[f].local_path) # "absent"

\* a download of the current run is in or past its request
Requesting == \E f \in Futs : futs[f].st \in {"get", "open", "write", "backoff"}

RECURSIVE AttrPairs(_)
AttrPairs(tag) ==
    IF tag = <<>> THEN <<>>
    ELSE (IF Head(tag).k = "attr"
          THEN <<<<Head(tag).a[1], Head(tag).v>>>>
          ELSE <<>>)
         \o AttrPairs(Tail(tag))

IsNotSrc(pair) == pair[1] \notin {"src", "SRC"}

\* the tags of a string: from each <img to the first > after it
TagsOf(t) ==
    {SubSeq(t, i, FirstOfKind(t, "gt", i)) :
        i \in {j \in 1..Len(t) : t[j] = LT /\ FirstOfKind(t, "gt", j) # 0}}

\* the rewrite loop has just replaced the tag of item k - 1 of the dict
TagRewritten ==
    /\ pc = "rewrite"
    /\ k > 1
    /\ url_replacements[k - 1].name[1] = LT
    /\ Occurrences(content, url_replacements[k - 1].name) # {}

\* C9: the tag written for a tag-form original_text has src first, equal to
\* the local path, followed by every other attribute of the original tag with
\* its name and value, in the original order: none dropped, merged or renamed.
C9_TagRewrite ==
    TagRewritten =>
        \E tag \in TagsOf(updated_content) :
            AttrPairs(tag) =
                <<<<"src", url_replacements[k - 1].value>>>>
                \o SelectSeq(AttrPairs(url_replacements[k - 1].name), IsNotSrc)

\* the rewrite loop is at item k of the dict, a link whose url is one lexeme
AtBracketItem ==
    /\ pc = "rewrite"
    /\ k <= Len(url_replacements)
    /\ url_replacements[k].name[1] = LB
    /\ url_replacements[k].name[Len(url_replacements[k].name) - 2] = MID

\* the link the claim expects for item k: the alt text of original_text, then
\* the local path
ExpectedLink ==
    <<LB>>
    \o SubSeq(url_replacements[k].name, 2, Len(url_replacements[k].name) - 3)
    \o <<MID>> \o url_replacements[k].value \o <<RP>>

\* C10: an iteration of the rewrite loop on a link replaces every occurrence
\* of original_text in the text by the link of the same alt text to the local
\* path, and leaves every lexeme outside those occurrences as it was.
C10_BracketRewrite ==
    [][(AtBracketItem /\ k' = k + 1) =>
          LET old == url_replacements[k].name
              occ == Occurrences(updated_content, old)
          IN  /\ Len(updated_content') = Len(updated_content)
              /\ \A p \in 1..Len(updated_content) :
                    IF \E i \in occ : i <= p /\ p < i + Len(old)
                    THEN \E i \in occ :
                            /\ i <= p /\ p < i + Len(old)
                            /\ updated_content'[p] = ExpectedLink[p - i + 1]
                    ELSE updated_content'[p] = updated_content[p]]_vars

\* a link that occurred twice has been rewritten, both times
C10_Witness ==
    /\ pc = "rewrite"
    /\ k = 2
    /\ url_replacements[1].name[1] = LB
    /\ Cardinality(Occurrences(content, url_replacements[1].name)) = 2
    /\ Occurrences(updated_content, url_replacements[1].name) = {}
    /\ LocalPaths(updated_content) = 2

\* the levels 85, 80, ..., 25 of the claim
ClaimedLevels == {q \in AllQualities : 25 <= q /\ q <= 85}

\* the claimed levels at which the encoding of the payload is within budget
LevelsWithinBudget ==
    {q \in ClaimedLevels : WithinBudget(EncodedLen(call.data, q))}

\* the first of them in the order 85, 80, ..., 25
FirstLevelWithinBudget ==
    CHOOSE q \in LevelsWithinBudget : \A r \in LevelsWithinBudget : r <= q

\* C11 as stated: a payload of at most max_size_kb * 1024 bytes is returned
\* unchanged; a larger decodable payload (one that Image.open decodes and
\* that JPEG can hold) is returned as its encoding at the first of the
\* qualities 85, 80, ..., 25 that is within budget, and as its quality-25
\* encoding if none is.
C11_LowestQuality25 ==
    call.pc = "returned" =>
        IF WithinBudget(call.data.len)
        THEN call.result = Original(call.data)
        ELSE (call.data.decodable /\ call.data.mode \in {"RGB", "RGBA"}) =>
               call.result =
                 IF LevelsWithinBudget # {}
                 THEN Encoding(call.data, FirstLevelWithinBudget)
                 ELSE Encoding(call.data, 25)

\* C11 amended: a payload of at most max_size_kb * 1024 bytes is returned
\* unchanged; a larger payload that decodes and that JPEG can hold is returned
\* as its encoding at the first of the qualities 85, 80, ..., 25 that is within
\* budget, and as its quality-20 encoding, whatever the size of that, if none
\* is; a larger payload that does not decode, or that cannot be encoded, is
\* returned unchanged.
C11_LowestQuality20 ==
    call.pc = "returned" =>
        IF WithinBudget(call.data.len)
        THEN call.result = Original(call.data)
        ELSE IF call.data.decodable /\ call.data.mode \in {"RGB", "RGBA"}
             THEN call.result =
                    IF LevelsWithinBudget # {}
                    THEN Encoding(call.data, FirstLevelWithinBudget)
                    ELSE Encoding(call.data, 20)
             ELSE call.result = Original(call.data)

\* a payload over the budget has gone through all the levels and come back
\* as the encoding made after the loop, itself over the budget
C11_Witness ==
    /\ call.pc = "returned"
    /\ ~WithinBudget(call.data.len)
    /\ call.result.kind = "JPEG"
    /\ call.result.quality < 25
    /\ ~WithinBudget(call.result.len)
    /\ 25 \notin call.data.fits

\* the url of future f carries a recognized image extension
HasImageExtension(f) == Lower(futs[f].url[1].a[3]) \in RecognizedExt

\* the extension a declared content type stands for; .jpg when it names no
\* image type
DeclaredExt(content_type) ==
    LET ct == LowerContentType(content_type)
    IN  CASE InContentType("png", ct) -> ".png"
          [] InContentType("gif", ct) -> ".gif"
          [] InContentType("webp", ct) -> ".webp"
          [] InContentType("svg", ct) -> ".svg"
          [] OTHER -> ".jpg"

\* C12: when the response for a url without a recognized image extension is
\* there, the file name the download writes to (and the one recorded for the
\* document) is image_<hash><ext> with <ext> the extension of the declared
\* content type, .jpg only when the content type names no image type.
C12_NameFromContentType ==
    \A f \in Futs :
        (futs[f].st = "open" /\ ~HasImageExtension(f)) =>
            futs[f].local_path =
                <<"image", "_">> \o UrlHash(futs[f].url)
                \o <<DeclaredExt(futs[f].content_type)>>

\* the payload future f holds is an SVG by its url (extension .svg) or by the
\* content type the response declares
IsSvgPayload(f) ==
    \/ Lower(futs[f].url[1].a[3]) = ".svg"
    \/ InContentType("svg", LowerContentType(futs[f].content_type))

\* C16: a payload about to be written has gone through compress_image exactly
\* when it is not an SVG, an SVG being known by the extension .svg of its url
\* or by its declared content type.
C16_SvgNeverCompressed ==
    \A f \in Futs :
        futs[f].st = "open" => (futs[f].compressed <=> ~IsSvgPayload(f))

\* the documents are attempted in sequence, each once: when run is at document
\* i, the log holds one outcome for each document before i, the outcome of
\* that very document, and none for the others; documents whose processing
\* failed are in the log like the others
AttemptedOnceInSequence ==
    /\ Len(batch.log) = batch.i - 1
    /\ Len(batch.log) <= Len(batch.md_files)
    /\ \A j \in 1..Len(batch.log) :
          batch.log[j] = ProcessMarkdownFile(batch.md_files[j])
    /\ batch.pc \in {"reported", "returned"} =>
          Len(batch.log) = Len(batch.md_files)

\* C13 as stated: for any list of documents and any combination of failures,
\* run attempts every document exactly once, in sequence, whatever failed in
\* the documents before it, and reaches its final report of the totals.
C13_RunAlwaysReports ==
    /\ [](batch.pc # "none" => AttemptedOnceInSequence)
    /\ <>(batch.pc = "reported")

\* C13 amended: the same for any list of at least one document; for the empty
\* list run logs that it found no file and returns without the report of the
\* totals.
C13_RunReportsUnlessNoFile ==
    /\ [](batch.pc # "none" => AttemptedOnceInSequence)
    /\ (batch.pc = "find" /\ batch.md_files # <<>>) ~> (batch.pc = "reported")
    /\ [](batch.md_files = <<>> => batch.pc # "reported")

\* run has reported after a document that could not be read, one that could
\* not be written, and one that was rewritten
C13_Witness ==
    /\ batch.pc = "reported"
    /\ \E h, i, j \in 1..Len(batch.log) :
          /\ h < j
          /\ batch.log[h].failure = "read"
          /\ batch.log[i].failure = "write"
          /\ batch.log[j].replacements > 0

\* the step that writes the Markdown file (line 313-314)
WritesDocument == pc = "rewrite" /\ pc' = "done"

\* C14: the Markdown file is written only with a non-empty url_replacements
\* (so with a download that returned True), and at most once in a run (the
\* write ends the run; the rewrite loop is entered once, from the collection);
\* without a write the text stays; and a run on a document without references
\* ends at once, leaving the text and creating no images folder.
C14_WriteOnlyWithReplacements ==
    [][/\ WritesDocument =>
            /\ url_replacements # <<>>
            /\ \E f \in Futs : futs[f].result
       /\ content' # content => WritesDocument
       /\ (pc # "rewrite" /\ pc' = "rewrite") => pc = "collect"
       /\ pc = "done" => (pc' = "start" /\ run' = run + 1)
       /\ (pc = "start" /\ ExtractImageUrls(content) = <<>>) =>
            /\ pc' = "done"
            /\ content' = content
            /\ images_folder' = images_folder
            /\ fs' = fs]_vars

\* a run has ended on a document whose downloads all returned False: nothing
\* was recorded and the references are still in the text
C14_Witness ==
    /\ pc = "done"
    /\ Len(futs) > 0
    /\ \A f \in Futs : ~futs[f].result
    /\ url_replacements = <<>>
    /\ Len(ExtractImageUrls(content)) = Len(futs)

\* the fetches that are running: in the existence check and the delay before
\* the request, in the request, holding the payload, writing, or in a backoff
\* wait
Fetching ==
    {f \in Futs : futs[f].st \in {"check", "get", "open", "write", "backoff"}}

\* C15: at every moment the number of running fetches is at most max_workers,
\* however many references the document has.
C15_BoundedConcurrency == Cardinality(Fetching) <= max_workers

\* the pool is full, one of its calls is in a backoff wait, and a submitted
\* download is waiting for a thread
C15_Witness ==
    /\ Cardinality(Fetching) = max_workers
    /\ \E f \in Futs : futs[f].st = "backoff"
    /\ \E f \in Futs : futs[f].st = "queued"

\* the tag carries a src attribute whose value is an absolute HTTP(S) url
HasRemoteSrc(tag) ==
    \E p \in 1..Len(tag) :
        /\ tag[p].k = "attr"
        /\ tag[p].a[1] = "src"
        /\ tag[p].a[2] \in {"dq", "sq"}
        /\ StartsWithHttp(tag[p].v)

\* C17: every tag of the document with an absolute HTTP(S) src is the
\* original_text of one of the extracted references; and when every download
\* of the first run has returned True, no tag of the rewritten document has a
\* remote src left.
C17_EachTagItsOwnText ==
    /\ pc \in {"submit", "collect"} =>
          \A tag \in TagsOf(content) :
              HasRemoteSrc(tag) =>
                  \E i \in 1..Len(image_urls) : image_urls[i].original_text = tag
    /\ (pc = "done" /\ run = 1 /\ \A f \in Futs : futs[f].result) =>
          \A tag \in TagsOf(content) : ~HasRemoteSrc(tag)

\* the rewrite loop run to its end on a text, over the items given
RECURSIVE ApplyAll(_, _)
ApplyAll(text, items) ==
    IF items = <<>> THEN text
    ELSE ApplyAll(ApplyReplacement(text, Head(items).name, Head(items).value),
                  Tail(items))

\* the orders in which n downloads with different original_text can complete
CompletionOrders(n) ==
    {p \in [1..n -> 1..n] : \A i, j \in 1..n : i # j => p[i] # p[j]}

\* C18: when the rewrite loop starts, the text it would produce is the same
\* for every order in which the recorded downloads could have completed (the
\* same entries of url_replacements, inserted in another order).
C18_OrderIndependence ==
    (pc = "rewrite" /\ k = 1) =>
        \A p \in CompletionOrders(Len(url_replacements)) :
            ApplyAll(content,
                     [i \in 1..Len(url_replacements) |-> url_replacements[p[i]]])
            = ApplyAll(content, url_replacements)

\* C19: a download that has returned True has a complete file at its path: at
\* no moment is there a future whose call returned True while the file at its
\* local_path is missing or only partly written.
C19_SuccessMeansCompleteFile ==
    \A f \in Futs :
        (futs[f].st = "done" /\ futs[f].result) =>
            FileState(futs[f].local_path) = "full"

\* the futures a document may have
FutureIds == 1..MaxFutures

\* future f is the next the pool takes from its queue
HeadOfQueue(f) ==
    /\ f \in Futs
    /\ futs[f].st = "queued"
    /\ \A g \in 1..(f - 1) : futs[g].st # "queued"

\* C20: under fair scheduling every submitted download comes to its end, with
\* True or False, and every run of process_markdown_file returns; and with
\* max_workers >= 2 a download in its chain of tries holds one thread only:
\* while no other download is running, the next queued download can start.
C20_Termination ==
    /\ \A f \in FutureIds :
          (f \in Futs /\ futs[f].st # "done")
          ~> (f \in Futs /\ futs[f].st = "done")
    /\ (pc = "start") ~> (pc = "done")
    /\ [](\A f \in FutureIds :
            (max_workers >= 2 /\ HeadOfQueue(f) /\ Cardinality(Fetching) <= 1)
            => ENABLED StartWorker(f))

\* with two threads, a later download is done while an earlier one is still
\* in a backoff wait of its chain of tries
C20_Witness ==
    /\ max_workers >= 2
    /\ \E f, g \in Futs :
          /\ f < g
          /\ futs[f].st = "backoff"
          /\ futs[f].retries >= 1
          /\ futs[g].st = "done"

Spec == Init /\ [][Next]_vars

\* the threads are scheduled fairly: the main thread and every pool thread
\* that has a step to take takes one
SpecFair ==
    /\ Spec
    /\ WF_vars(MainStep)
    /\ \A f \in FutureIds : WF_vars(WorkerStep(f))

====
